---- MODULE Spec2Model ----
(***************************************************************************)
(* Model of the CPF calculator page (src/pages/page2.py).                  *)
(*                                                                         *)
(* The page is a set of pure functions called from main(): the age         *)
(* classifier, the contribution calculator, the allocation splitter, the   *)
(* month-by-month projection loop and the milestone solver.  One call is   *)
(* one "request": from the idle page an operation is applied to inputs     *)
(* drawn from bounded sets, its arguments and result are recorded in args  *)
(* and ret, and Reset returns to the idle page (nothing survives a         *)
(* request).  The chat page (src/streamlit_app.py) has a specification of  *)
(* its own, ChatSpec: its conversation history lives in the session and    *)
(* survives the runs of the script.                                        *)
(*                                                                         *)
(* Numbers.  Python floats are modelled as exact decimal fixed-point       *)
(* numbers:                                                                *)
(*   money          thousandths of a dollar  (Milli: $1 = 1000)            *)
(*   wages          whole dollars (the inputs of calculate_contributions)  *)
(*   CPF_RATES      thousandths   (0.37    = 370)                          *)
(*   ALLOCATIONS    1e-5          (0.08108 = 8108)                         *)
(*   interest, increment  thousandths (0.025 = 25)                         *)
(*   years to a target    tenths of a year                                 *)
(* The binary representation error of a double (a relative 1e-16) is not   *)
(* modelled; where it decides an outcome (a decimal tie in round()) the    *)
(* outcome is a choice.  TLC integers are 32 bits wide, so products are    *)
(* split where the plain product would overflow.                           *)
(***************************************************************************)
EXTENDS Integers, Sequences, FiniteSets, TLC

VARIABLES
    pc,      \* which operation the page is in, or whose result it holds
    args,    \* the actual parameters of that call
    ret,     \* its return value (and the locals it computed)
    frame,   \* calculate_future_balance: the locals of the running loop
    conversation_history
             \* st.session_state.conversation_history of the chat page

vars == <<pc, args, ret, frame, conversation_history>>

----------------------------------------------------------------------------
(* Units *)

Milli == 10^3            \* thousandths of a dollar in one dollar

Dollars(d) == d * Milli

----------------------------------------------------------------------------
(* Constants of the page *)

ORDINARY_WAGES_CEILING == 6000      \* dollars, monthly

TOTAL_WAGES_CEILING == 102000       \* dollars, yearly

BRS_2024 == 102000                  \* dollars

FRS_2024 == 198800                  \* dollars

AgeBands ==
    << "35 years and below", "Above 35 to 45 years", "Above 45 to 50 years",
       "Above 50 to 55 years", "Above 55 to 60 years", "Above 60 to 65 years",
       "Above 65 years" >>

\* the bands get_age_group returns
AgeBandSet == { AgeBands[i] : i \in 1..Len(AgeBands) }

\* a slip: the employer rate of one band repeats its employee rate
CPF_RATES_Mistyped ==
       "35 years and below"    :> <<370, 200, 170>>
    @@ "Above 35 to 45 years"  :> <<370, 200, 170>>
    @@ "Above 45 to 50 years"  :> <<370, 200, 170>>
    @@ "Above 50 to 55 years"  :> <<370, 200, 170>>
    @@ "Above 55 to 60 years"  :> <<260, 130, 130>>
    @@ "Above 60 to 65 years"  :> <<165, 85, 85>>
    @@ "Above 65 years"        :> <<125, 75, 50>>

\* the dict, with its keys: (total, employee, employer), thousandths
CPF_RATES ==
       "35 years and below"    :> <<370, 200, 170>>
    @@ "Above 35 to 45 years"  :> <<370, 200, 170>>
    @@ "Above 45 to 50 years"  :> <<370, 200, 170>>
    @@ "Above 50 to 55 years"  :> <<370, 200, 170>>
    @@ "Above 55 to 60 years"  :> <<260, 130, 130>>
    @@ "Above 60 to 65 years"  :> <<165, 85, 80>>
    @@ "Above 65 years"        :> <<125, 75, 50>>

\* a slip: the rows are written (ordinary, special, medisave)
ALLOCATIONS_Reversed ==
       "35 years and below"    :> <<68649, 23243, 8108>>
    @@ "Above 35 to 45 years"  :> <<68649, 23243, 8108>>
    @@ "Above 45 to 50 years"  :> <<68649, 23243, 8108>>
    @@ "Above 50 to 55 years"  :> <<68649, 23243, 8108>>
    @@ "Above 55 to 60 years"  :> <<75961, 13462, 10577>>
    @@ "Above 60 to 65 years"  :> <<84849, 3030, 12121>>
    @@ "Above 65 years"        :> <<84000, 0, 16000>>

\* a slip: the last row repeats the shares of the row above it
ALLOCATIONS_LastRowRepeated ==
       "35 years and below"    :> <<8108, 23243, 68649>>
    @@ "Above 35 to 45 years"  :> <<8108, 23243, 68649>>
    @@ "Above 45 to 50 years"  :> <<8108, 23243, 68649>>
    @@ "Above 50 to 55 years"  :> <<8108, 23243, 68649>>
    @@ "Above 55 to 60 years"  :> <<10577, 13462, 75961>>
    @@ "Above 60 to 65 years"  :> <<12121, 3030, 84849>>
    @@ "Above 65 years"        :> <<12121, 3030, 84849>>

\* the dict, with its keys: (medisave, special, ordinary), 1e-5
ALLOCATIONS ==
       "35 years and below"    :> <<8108, 23243, 68649>>
    @@ "Above 35 to 45 years"  :> <<8108, 23243, 68649>>
    @@ "Above 45 to 50 years"  :> <<8108, 23243, 68649>>
    @@ "Above 50 to 55 years"  :> <<8108, 23243, 68649>>
    @@ "Above 55 to 60 years"  :> <<10577, 13462, 75961>>
    @@ "Above 60 to 65 years"  :> <<12121, 3030, 84849>>
    @@ "Above 65 years"        :> <<16000, 0, 84000>>

RateUnit == 10^3         \* CPF_RATES are thousandths

ShareUnit == 10^5        \* ALLOCATIONS are 1e-5

----------------------------------------------------------------------------
(* Small helpers *)

Max(a, b) == IF a >= b THEN a ELSE b

Min(a, b) == IF a <= b THEN a ELSE b

NoValue == [none |-> TRUE]

\* a slip: the birthday itself still counts as before the birthday
TupleLessOrEqual(a1, a2, b1, b2) == a1 < b1 \/ (a1 = b1 /\ a2 <= b2)

\* Python's tuple comparison (a1, a2) < (b1, b2)
TupleLess(a1, a2, b1, b2) == a1 < b1 \/ (a1 = b1 /\ a2 < b2)

----------------------------------------------------------------------------
(* get_age_group: the date of today is read from the clock, so it is an    *)
(* input of the model.  A date is <<year, month, day>>.                    *)

AgeOf(birth_date, today) ==
    today[1] - birth_date[1]
      - (IF TupleLess(today[2], today[3], birth_date[2], birth_date[3])
         THEN 1 ELSE 0)

\* a slip: the first threshold is exclusive
BandOfAgeExclusive(age) ==
    IF age < 35 THEN "35 years and below"
    ELSE IF age <= 45 THEN "Above 35 to 45 years"
    ELSE IF age <= 50 THEN "Above 45 to 50 years"
    ELSE IF age <= 55 THEN "Above 50 to 55 years"
    ELSE IF age <= 60 THEN "Above 55 to 60 years"
    ELSE IF age <= 65 THEN "Above 60 to 65 years"
    ELSE "Above 65 years"

\* the if / elif chain
BandOfAge(age) ==
    IF age <= 35 THEN "35 years and below"
    ELSE IF age <= 45 THEN "Above 35 to 45 years"
    ELSE IF age <= 50 THEN "Above 45 to 50 years"
    ELSE IF age <= 55 THEN "Above 50 to 55 years"
    ELSE IF age <= 60 THEN "Above 55 to 60 years"
    ELSE IF age <= 65 THEN "Above 60 to 65 years"
    ELSE "Above 65 years"

get_age_group(birth_date, today) == BandOfAge(AgeOf(birth_date, today))

----------------------------------------------------------------------------
(* calculate_contributions: wages in dollars, the result in Milli.  A rate *)
(* in thousandths times dollars is an amount in Milli, exactly.            *)

\* a slip: the wages of the year so far are left out
RemainingCeilingWithoutYtd(total_wages_ytd) == TOTAL_WAGES_CEILING

\* remaining_ceiling = max(0, TOTAL_WAGES_CEILING - total_wages_ytd)
RemainingCeiling(total_wages_ytd) == Max(0, TOTAL_WAGES_CEILING - total_wages_ytd)

\* a slip: the monthly ceiling is not applied
UncappedOrdinaryWages(ordinary_wages) == ordinary_wages

\* capped_ordinary_wages = min(ordinary_wages, ORDINARY_WAGES_CEILING)
CappedOrdinaryWages(ordinary_wages) == Min(ordinary_wages, ORDINARY_WAGES_CEILING)

\* a slip: the operands are exchanged
EmployerShareExchanged(total_cpf, employee_share) == employee_share - total_cpf

\* employer_share = total_cpf - employee_share
EmployerShare(total_cpf, employee_share) == total_cpf - employee_share

calculate_contributions(ordinary_wages, additional_wages, age_group, total_wages_ytd) ==
    LET rate == CPF_RATES[age_group][1]
        employee_rate == CPF_RATES[age_group][2]
        remaining_ceiling == RemainingCeiling(total_wages_ytd)
        capped_ordinary_wages == CappedOrdinaryWages(ordinary_wages)
        remaining_aw_ceiling == Max(0, remaining_ceiling - capped_ordinary_wages)
        capped_additional_wages == Min(additional_wages, remaining_aw_ceiling)
        total_cpf == (rate * capped_ordinary_wages) + (rate * capped_additional_wages)
        employee_share == (employee_rate * capped_ordinary_wages)
                            + (employee_rate * capped_additional_wages)
        employer_share == EmployerShare(total_cpf, employee_share)
    IN  [ total_cpf |-> total_cpf,
          employee_share |-> employee_share,
          employer_share |-> employer_share,
          remaining_ceiling |-> remaining_ceiling,
          capped_ordinary_wages |-> capped_ordinary_wages,
          capped_additional_wages |-> capped_additional_wages ]

----------------------------------------------------------------------------
(* round(x, 2).  Python rounds the double nearest to x; when x is exactly  *)
(* halfway between two cents the double lies on either side of the tie, so *)
(* the direction is a choice (up).                                         *)

Cent == Milli \div 100   \* one cent, in Milli

\* round(x, 2) of an amount x >= 0 in Milli; the result is in Milli
Round2(x, up) ==
    LET whole == x \div Cent
        rest == x % Cent
    IN  Cent * (IF 2 * rest > Cent \/ (2 * rest = Cent /\ up)
                THEN whole + 1 ELSE whole)

\* round(share * x, 2) for a share in 1e-5 and an amount x >= 0 in Milli.
\* share * x is held in 1e-8 dollars; the product is split into the dollars
\* and the thousandths of x so that no intermediate value exceeds 32 bits
\* (x below 25 309 dollars).
Round2Product(share, x, up) ==
    LET P == share * (x \div Milli)          \* 1e-5 dollars
        Q == share * (x % Milli)             \* 1e-8 dollars
        R == (P % Milli) * Milli + Q         \* 1e-8 dollars, below a cent * 100
        PerCent == Milli * Milli             \* 1e-8 dollars in one cent
        whole == P \div Milli + R \div PerCent
        rest == R % PerCent
    IN  Cent * (IF 2 * rest > PerCent \/ (2 * rest = PerCent /\ up)
                THEN whole + 1 ELSE whole)

----------------------------------------------------------------------------
(* calculate_allocations: total_cpf and the result in Milli.  tie is the   *)
(* direction of the three round() calls at a decimal tie.                  *)

\* a slip: only a total of 0 is caught
NothingToAllocateAtZero(total_cpf) == total_cpf = 0

\* if total_cpf <= 0
NothingToAllocate(total_cpf) == total_cpf <= 0

calculate_allocations(total_cpf, age_group, tie) ==
    IF NothingToAllocate(total_cpf)
    THEN [ medisave_allocation |-> 0, special_allocation |-> 0,
           ordinary_allocation |-> 0 ]
    ELSE
      LET medisave_rate == ALLOCATIONS[age_group][1]
          special_rate == ALLOCATIONS[age_group][2]
          medisave_allocation == Round2Product(medisave_rate, total_cpf, tie[1])
          special_allocation == Round2Product(special_rate, total_cpf, tie[2])
          ordinary_allocation ==
              Round2(total_cpf - medisave_allocation - special_allocation, tie[3])
      IN  [ medisave_allocation |-> medisave_allocation,
            special_allocation |-> special_allocation,
            ordinary_allocation |-> ordinary_allocation ]

----------------------------------------------------------------------------
(* calculate_milestones.  Balances and the monthly contribution are in     *)
(* Milli; monthly_sa_contribution is held in 1e-5 dollars (Milli times a   *)
(* share, cut to 1e-5).  A result is the number of years in tenths, or one *)
(* of the two texts.                                                       *)

Text(t) == [number |-> FALSE, years10 |-> 0, text |-> t]

Number(y10) == [number |-> TRUE, years10 |-> y10, text |-> ""]

AlreadyAchieved == Text("Already achieved")

CannotBeAchieved == Text("Cannot be achieved with current contribution")

LogScale == 10^6         \* fixed-point scale of the logarithm's argument

MonthsPerYear == 12

MaxYearsToTarget == 100  \* the sanity check of years_to_target

SA_RATE == 40            \* r = 0.04, thousandths

\* 1 / r_monthly = 12 / 0.04
PeriodsPerRate == (MonthsPerYear * RateUnit) \div SA_RATE

\* The largest argument whose logarithm is computed: (1 + r_monthly)^1200 is
\* below 55, so beyond ArgCap the result exceeds MaxYearsToTarget years.
ArgCap == 2^6

\* floor(num * scale / den) for 0 <= num, 0 < den and scale a power of ten,
\* by long division
RECURSIVE Quotient(_, _, _)
Quotient(num, den, scale) ==
    IF scale = 1 THEN num \div den
    ELSE (num \div den) * scale + Quotient((num % den) * 10, den, scale \div 10)

\* 1 + (remaining * r_monthly) / monthly_sa_contribution, scaled by LogScale;
\* remaining in Milli, monthly_sa_contribution in 1e-5 dollars
LogArgument(remaining, monthly_sa_contribution) ==
    LET num == remaining
        den == (PeriodsPerRate \div (ShareUnit \div Milli)) * monthly_sa_contribution
    IN  IF den = 0 \/ num \div den >= ArgCap
        THEN ArgCap * LogScale
        ELSE LogScale + Quotient(num, den, LogScale)

\* (1 + r_monthly)^k times growth, one month at a time, each product rounded
\* to the nearest unit; the months are grouped in years to keep the recursion
\* shallow
RECURSIVE CompoundMonths(_, _)
CompoundMonths(growth, k) ==
    IF k = 0 \/ growth = 0 THEN growth
    ELSE CompoundMonths(growth + (2 * growth + PeriodsPerRate) \div (2 * PeriodsPerRate),
                        k - 1)

RECURSIVE CompoundYears(_, _)
CompoundYears(growth, k) ==
    IF k = 0 \/ growth = 0 THEN growth
    ELSE CompoundYears(CompoundMonths(growth, MonthsPerYear), k - 1)

Compound(start, months) ==
    CompoundMonths(CompoundYears(start, months \div MonthsPerYear),
                   months % MonthsPerYear)

\* the last month the sanity check of years_to_target accepts
MaxMonths == MaxYearsToTarget * MonthsPerYear

MonthUnit == 10^2        \* n_months is held in hundredths of a month

\* np.log(x) / np.log(1 + r_monthly), in MonthUnit, rounded up.  growth is
\* (1 + r_monthly)^n scaled by LogScale; the search compounds growth month
\* after month up to the last n with growth < x and interpolates within the
\* month that reaches x.  The months that stay below x are taken stride at a
\* time (decades, then years, then single months), which keeps the recursion
\* shallow.  Past MaxMonths the search stops: the result is then only known
\* to exceed MaxMonths, and stands as MaxMonths + 1.
RECURSIVE LogMonths(_, _, _, _)
LogMonths(x, n, growth, stride) ==
    IF growth >= x THEN n * MonthUnit
    ELSE IF n >= MaxMonths THEN (MaxMonths + 1) * MonthUnit
    ELSE LET far == Compound(growth, stride)
         IN  IF far < x /\ n + stride <= MaxMonths
             THEN LogMonths(x, n + stride, far, stride)
             ELSE IF stride = 1
             THEN n * MonthUnit
                    + ((x - growth) * MonthUnit + (far - growth) - 1) \div (far - growth)
             ELSE LogMonths(x, n, growth, stride \div 10)

\* the first stride: ten years
Decade == 10 * MonthsPerYear

\* round(n_months / 12, 1) in tenths of a year (ties to even)
RoundYears(n_months) ==
    LET unit == (MonthsPerYear * MonthUnit) \div 10
        whole == n_months \div unit
        rest == n_months % unit
    IN  IF 2 * rest > unit \/ (2 * rest = unit /\ whole % 2 = 1)
        THEN whole + 1 ELSE whole

\* a slip: the upper limit of the sanity check is left out
SanityCheckWithoutLimit(n_months) == n_months < 0

\* years < 0 or years > 100, for years = n_months / 12
SanityCheck(n_months) == n_months < 0 \/ n_months > MaxMonths * MonthUnit

\* a slip: the text of the other early return
NoContributionAchieved == AlreadyAchieved

\* what "if monthly_sa_contribution <= 0" returns
NoContribution == CannotBeAchieved

\* a slip: the contribution is looked at before the balance
years_to_target_contribution_first(target, current, monthly, monthly_sa_positive) ==
    IF ~monthly_sa_positive THEN NoContribution
    ELSE IF current >= target THEN AlreadyAchieved
    ELSE
      LET n_months == LogMonths(LogArgument(target - current, monthly), 0, LogScale,
                                Decade)
      IN  IF SanityCheck(n_months) THEN CannotBeAchieved
          ELSE Number(RoundYears(n_months))

\* monthly is monthly_sa_contribution in 1e-5 dollars; monthly_sa_positive is
\* monthly_sa_contribution > 0, decided by the caller on the exact product
years_to_target(target, current, monthly, monthly_sa_positive) ==
    IF current >= target THEN AlreadyAchieved
    ELSE
      LET remaining == target - current
      IN  IF ~monthly_sa_positive THEN NoContribution
          ELSE
            LET n_months == LogMonths(LogArgument(remaining, monthly), 0, LogScale,
                                      Decade)
            IN  IF SanityCheck(n_months)
                THEN CannotBeAchieved
                ELSE Number(RoundYears(n_months))

\* Milli times a share (1e-5), in 1e-5 dollars, cut to a whole number
ShareOf(amount, share) ==
    (amount \div Milli) * share + ((amount % Milli) * share) \div Milli

\* the return statement a call of years_to_target leaves by: the one of
\* "if current >= target", the one of "if monthly_sa_contribution <= 0", or
\* one inside the try block, after the logarithm
years_to_target_return(target, current, monthly_sa_positive) ==
    IF current >= target THEN "current >= target"
    ELSE IF ~monthly_sa_positive THEN "monthly_sa_contribution <= 0"
    ELSE "try"

\* monthly_sa_contribution > 0, decided on the exact product
MonthlySaPositive(monthly_contribution_arg, age_group) ==
    monthly_contribution_arg > 0 /\ ALLOCATIONS[age_group][2] > 0

\* the two calls of years_to_target, by the return statement each leaves by
milestone_returns(current_balance, monthly_contribution_arg, age_group) ==
    LET positive == MonthlySaPositive(monthly_contribution_arg, age_group)
    IN  [ BRS |-> years_to_target_return(Dollars(BRS_2024), current_balance.SA,
                                         positive),
          FRS |-> years_to_target_return(Dollars(FRS_2024), current_balance.SA,
                                         positive) ]

\* a slip: the two targets are exchanged
calculate_milestones_exchanged(current_balance, monthly_contribution_arg, age_group) ==
    LET sa_allocation_rate == ALLOCATIONS[age_group][2]
        monthly_sa_contribution == ShareOf(monthly_contribution_arg, sa_allocation_rate)
        positive == MonthlySaPositive(monthly_contribution_arg, age_group)
    IN  [ BRS |-> years_to_target(Dollars(FRS_2024), current_balance.SA,
                                  monthly_sa_contribution, positive),
          FRS |-> years_to_target(Dollars(BRS_2024), current_balance.SA,
                                  monthly_sa_contribution, positive) ]

calculate_milestones(current_balance, monthly_contribution_arg, age_group) ==
    LET sa_allocation_rate == ALLOCATIONS[age_group][2]
        monthly_sa_contribution == ShareOf(monthly_contribution_arg, sa_allocation_rate)
        positive == MonthlySaPositive(monthly_contribution_arg, age_group)
    IN  [ BRS |-> years_to_target(Dollars(BRS_2024), current_balance.SA,
                                  monthly_sa_contribution, positive),
          FRS |-> years_to_target(Dollars(FRS_2024), current_balance.SA,
                                  monthly_sa_contribution, positive) ]

----------------------------------------------------------------------------
(* calculate_future_balance.  Amounts in Milli, annual_increment and the   *)
(* interest rates in thousandths; every product is cut to a whole Milli.   *)

\* 0.68649, 0.23243, 0.08108: the shares written in the loop body
ProjectionShares == [OA |-> 68649, SA |-> 23243, MA |-> 8108]

\* the default of the parameter interest_rates
DefaultInterestRates == [OA |-> 25, SA |-> 40, MA |-> 40]

\* floor(amount * num / den), for den * num below 2^31
Scale(amount, num, den) ==
    (amount \div den) * num + ((amount % den) * num) \div den

\* amount * share, in Milli
MilliShareOf(amount, share) == ShareOf(amount, share) \div (ShareUnit \div Milli)

\* balance * (1 + rate / 12)
WithMonthlyInterest(balance, rate) ==
    balance + Scale(balance, rate, MonthsPerYear * RateUnit)

EmptySeries == [OA |-> <<>>, SA |-> <<>>, MA |-> <<>>, Total |-> <<>>, Months |-> <<>>]

\* the locals before the loop
InitialFrame(current_contribution) ==
    [ month |-> 0,
      monthly_contribution |-> current_contribution,
      oa_balance |-> 0, sa_balance |-> 0, ma_balance |-> 0,
      monthly_data |-> EmptySeries ]

\* a slip: the first month counts as the start of a year
RaiseDueFromStart(month) == month % MonthsPerYear = 0

\* month % 12 == 0 and month > 0
RaiseDue(month) == month % MonthsPerYear = 0 /\ month > 0

\* a slip: the contribution is taken out, not paid in
UpdateBalanceWithdrawn(balance, contribution, rate) ==
    WithMonthlyInterest(balance - contribution, rate)

\* a slip: the interest is added before the contribution
UpdateBalanceInterestFirst(balance, contribution, rate) ==
    WithMonthlyInterest(balance, rate) + contribution

\* (balance + contribution) * (1 + rate / 12)
UpdateBalance(balance, contribution, rate) ==
    WithMonthlyInterest(balance + contribution, rate)

\* a slip: one iteration too many
LoopRangeInclusive(years) == years * MonthsPerYear + 1

\* range(years * 12)
LoopRange(years) == years * MonthsPerYear

\* one iteration of the loop, for month = f.month
LoopBody(f, annual_increment, interest_rates) ==
    LET monthly == IF RaiseDue(f.month)
                   THEN f.monthly_contribution
                          + Scale(f.monthly_contribution, annual_increment, RateUnit)
                   ELSE f.monthly_contribution
        oa_contribution == MilliShareOf(monthly, ProjectionShares.OA)
        sa_contribution == MilliShareOf(monthly, ProjectionShares.SA)
        ma_contribution == MilliShareOf(monthly, ProjectionShares.MA)
        oa == UpdateBalance(f.oa_balance, oa_contribution, interest_rates.OA)
        sa == UpdateBalance(f.sa_balance, sa_contribution, interest_rates.SA)
        ma == UpdateBalance(f.ma_balance, ma_contribution, interest_rates.MA)
        total_balance == oa + sa + ma
    IN  [ month |-> f.month + 1,
          monthly_contribution |-> monthly,
          oa_balance |-> oa, sa_balance |-> sa, ma_balance |-> ma,
          monthly_data |->
            [ OA |-> Append(f.monthly_data.OA, oa),
              SA |-> Append(f.monthly_data.SA, sa),
              MA |-> Append(f.monthly_data.MA, ma),
              Total |-> Append(f.monthly_data.Total, total_balance),
              Months |-> Append(f.monthly_data.Months, f.month) ] ]

RECURSIVE RunLoop(_, _, _, _)
RunLoop(f, n, annual_increment, interest_rates) ==
    IF f.month >= n THEN f
    ELSE RunLoop(LoopBody(f, annual_increment, interest_rates), n,
                 annual_increment, interest_rates)

\* the whole call, as a function of its parameters
calculate_future_balance(current_contribution, years, annual_increment, interest_rates) ==
    RunLoop(InitialFrame(current_contribution), LoopRange(years),
            annual_increment, interest_rates).monthly_data

----------------------------------------------------------------------------
(* identify_relevant_url (streamlit_app.py).  A message is a sequence of   *)
(* pieces of text: a piece is a run of white space, " ", or a part of a    *)
(* word; parts that follow each other without white space make one word,   *)
(* held as the sequence of its parts.  No two parts of the model put       *)
(* together spell a keyword.  A URL is named by its list and its place in  *)
(* that list.                                                              *)

HousingPolicyUrls == 51  \* the length of CPF_URLS["housing_policies"]

CPF_URLS ==
    [ housing_policies |->
        [ i \in 1..HousingPolicyUrls |-> <<"housing_policies", i>> ],
      general_info |-> << <<"general_info", 1>> >> ]

\* str.lower(), on the pieces of the model
Lower(piece) ==
    CASE piece = "HDB" -> "hdb"
      [] piece = "Housing?" -> "housing?"
      [] OTHER -> piece

\* set(user_message.lower().split()): the words are the longest runs of
\* pieces without white space
message_words(user_message) ==
    LET n == Len(user_message)
        lowered == [ i \in 1..n |-> Lower(user_message[i]) ]
        IsWord(i, j) ==
            /\ i <= j
            /\ \A k \in i..j : lowered[k] # " "
            /\ (i = 1 \/ lowered[i - 1] = " ")
            /\ (j = n \/ lowered[j + 1] = " ")
    IN  { SubSeq(lowered, p[1], p[2]) :
            p \in { q \in (1..n) \X (1..n) : IsWord(q[1], q[2]) } }

\* a slip: one keyword is missing
housing_keywords_without_hdb ==
    { "housing", "house", "home", "property", "loan", "interest", "mortgage" }

housing_keywords ==
    { "housing", "house", "home", "property", "loan", "interest", "mortgage", "hdb" }

identify_relevant_url(user_message) ==
    LET found == \E keyword \in housing_keywords :
                    <<keyword>> \in message_words(user_message)
        relevant_urls == IF found THEN CPF_URLS.housing_policies ELSE <<>>
    IN  IF relevant_urls = <<>>
        THEN relevant_urls \o CPF_URLS.general_info
        ELSE relevant_urls

----------------------------------------------------------------------------
(* The chat page (streamlit_app.py): process_user_message and what it      *)
(* calls.  The crew and the web are outside the program: what a call of    *)
(* them comes to is an input.  An answer is a record: the apology, or the  *)
(* combined response with the crew's analysis and the pages that gave      *)
(* content; without such pages the text reads "No additional information  *)
(* found.".                                                                *)

\* crew.kickoff() returns a response or raises
CrewOutcomes == {"response", "raises"}

\* fetch_webpage_content: the page gives text; it gives none; requests raises
\* a RequestException; anything else is raised
FetchOutcomes == {"text", "no content", "RequestException", "other exception"}

\* what fetch_webpage_content returns when it returns
fetch_webpage_content(url, outcome) == IF outcome = "text" THEN "text" ELSE ""

\* the pages with content, or the exception that is not caught here
get_relevant_content_from_urls(urls, outcome) ==
    IF outcome = "other exception" /\ urls # <<>>
    THEN [raised |-> TRUE, content_list |-> <<>>]
    ELSE [ raised |-> FALSE,
           content_list |->
             SelectSeq(urls, LAMBDA url : fetch_webpage_content(url, outcome) # "") ]

\* the return value of the except clause
Apology == [apology |-> TRUE, analysis |-> "", additional |-> <<>>]

\* combined_response
CombinedResponse(crew_response, relevant_content) ==
    [apology |-> FALSE, analysis |-> crew_response, additional |-> relevant_content]

process_user_message(user_input, crew, fetch) ==
    IF crew = "raises" THEN Apology
    ELSE
      LET relevant_urls == identify_relevant_url(user_input)
          relevant_content ==
              IF relevant_urls # <<>>
              THEN get_relevant_content_from_urls(relevant_urls, fetch)
              ELSE [raised |-> FALSE, content_list |-> <<>>]
      IN  IF relevant_content.raised THEN Apology
          ELSE CombinedResponse("crew response", relevant_content.content_list)

\* a slip: the prompt is not looked at
SubmittedWithAnyPrompt(submit_button, user_prompt) == submit_button

\* if submit_button and user_prompt
Submitted(submit_button, user_prompt) == submit_button /\ user_prompt # <<>>

\* reversed(...)
reversed(history) ==
    [ i \in 1..Len(history) |-> history[Len(history) + 1 - i] ]

----------------------------------------------------------------------------
(* Bounds and the inputs drawn from them *)

ThisYear == 2026         \* the year of today

MaxAge == 67             \* birth years go back this far from ThisYear

MaxMonth == 3            \* months 1..MaxMonth

MaxDay == 3              \* days 1..MaxDay

Delta == 1               \* distance of the inputs next to a threshold

WageStep == 1000         \* dollars between the wage inputs

MaxYears == 2            \* projection horizons 0..MaxYears

MaxSubCent == 20         \* allocation totals 1..MaxSubCent Milli

MaxPieces == 3           \* messages of 0..MaxPieces pieces

MaxHistory == 2          \* submissions stop at this many entries

BirthDates ==
    { <<y, m, d>> : y \in (ThisYear - MaxAge)..(ThisYear + 1),
                    m \in 1..MaxMonth, d \in 1..MaxDay }

TodayDates == { <<ThisYear, m, d>> : m \in 1..MaxMonth, d \in 1..MaxDay }

OrdinaryWagesInputs ==
    { 0, Delta, ORDINARY_WAGES_CEILING - Delta, ORDINARY_WAGES_CEILING,
      ORDINARY_WAGES_CEILING + WageStep }

AdditionalWagesInputs == { 0, Delta, 5 * WageStep, 10 * WageStep }

YtdWagesInputs ==
    { 0, TOTAL_WAGES_CEILING - 12 * WageStep, TOTAL_WAGES_CEILING - 6 * WageStep,
      TOTAL_WAGES_CEILING - Delta, TOTAL_WAGES_CEILING,
      TOTAL_WAGES_CEILING + WageStep }

\* the largest monthly contribution the page computes: 0.37 * 6000
MaxMonthlyContribution == CPF_RATES["35 years and below"][1] * ORDINARY_WAGES_CEILING

TotalCpfInputs ==
    { -Dollars(Delta), -Delta, 0, Dollars(WageStep) + Cent, MaxMonthlyContribution }
      \cup 1..MaxSubCent

Ties == BOOLEAN \X BOOLEAN \X BOOLEAN

SaBalanceInputs ==
    { 0, Dollars(BRS_2024) \div 2,
      Dollars(BRS_2024) - Delta, Dollars(BRS_2024), Dollars(BRS_2024) + Dollars(WageStep),
      Dollars(FRS_2024) - Delta, Dollars(FRS_2024), Dollars(FRS_2024) + Dollars(WageStep) }

MonthlyContributionInputs ==
    { -Dollars(Delta), 0, Delta, Dollars(Delta), Dollars(WageStep) \div 10,
      Dollars(WageStep), MaxMonthlyContribution }

\* monthly_wage, dollars: the number_input runs from 0 to ORDINARY_WAGES_CEILING
MonthlyWageInputs == { 0, Delta, ORDINARY_WAGES_CEILING }

AnnualIncrementInputs == { 0, 30, 100 }

Pieces == { " ", "home", "HDB", "cpf", "Housing?" }

Messages == UNION { [1..n -> Pieces] : n \in 0..MaxPieces }

\* the text area: empty, or a question without or with a keyword
Prompts == { <<>>, <<"cpf">>, <<"HDB">> }

InterestRatesInputs == { DefaultInterestRates, [OA |-> 0, SA |-> 0, MA |-> 0] }

----------------------------------------------------------------------------
(* The page *)

Init ==
    /\ pc = "idle"
    /\ args = NoValue
    /\ ret = NoValue
    /\ frame = NoValue
    /\ conversation_history = <<>>

\* age_group = get_age_group(birth_date)
GetAgeGroup ==
    /\ pc = "idle"
    /\ \E birth_date \in BirthDates, today \in TodayDates :
         /\ args' = [birth_date |-> birth_date, today |-> today]
         /\ ret' = get_age_group(birth_date, today)
    /\ pc' = "get_age_group"
    /\ UNCHANGED <<frame, conversation_history>>

\* total_cpf, employee_share, employer_share = calculate_contributions(...)
CalculateContributions ==
    /\ pc = "idle"
    /\ \E ordinary_wages \in OrdinaryWagesInputs,
          additional_wages \in AdditionalWagesInputs,
          age_group \in AgeBandSet,
          total_wages_ytd \in YtdWagesInputs :
         /\ args' = [ ordinary_wages |-> ordinary_wages,
                      additional_wages |-> additional_wages,
                      age_group |-> age_group,
                      total_wages_ytd |-> total_wages_ytd ]
         /\ ret' = calculate_contributions(ordinary_wages, additional_wages,
                                           age_group, total_wages_ytd)
    /\ pc' = "calculate_contributions"
    /\ UNCHANGED <<frame, conversation_history>>

\* medisave, special, ordinary = calculate_allocations(total_cpf, age_group):
\* on a total of its own, or, as main() does, on the total and the band of the
\* contributions just calculated
CalculateAllocations ==
    /\ \E tie \in Ties :
         \/ /\ pc = "idle"
            /\ \E total_cpf \in TotalCpfInputs, age_group \in AgeBandSet :
                 /\ args' = [total_cpf |-> total_cpf, age_group |-> age_group]
                 /\ ret' = calculate_allocations(total_cpf, age_group, tie)
         \/ /\ pc = "calculate_contributions"
            /\ args' = [total_cpf |-> ret.total_cpf, age_group |-> args.age_group]
            /\ ret' = calculate_allocations(ret.total_cpf, args.age_group, tie)
    /\ pc' = "calculate_allocations"
    /\ UNCHANGED <<frame, conversation_history>>

\* milestones = calculate_milestones(current_balances, monthly_contribution,
\* age_group): on its own, or after the projection of the same request, with
\* the contribution and the band of that projection.  frame records the
\* return statement each call of years_to_target leaves by.
CalculateMilestones ==
    /\ \E sa \in SaBalanceInputs :
         \/ /\ pc = "idle"
            /\ \E monthly \in MonthlyContributionInputs, age_group \in AgeBandSet :
                 /\ args' = [ current_balance |-> [SA |-> sa],
                              monthly_contribution |-> monthly,
                              age_group |-> age_group ]
                 /\ ret' = calculate_milestones([SA |-> sa], monthly, age_group)
                 /\ frame' = milestone_returns([SA |-> sa], monthly, age_group)
         \/ /\ pc = "projected"
            /\ args' = [ current_balance |-> [SA |-> sa],
                         monthly_contribution |-> args.current_contribution,
                         age_group |-> args.age_group ]
            /\ ret' = calculate_milestones([SA |-> sa], args.current_contribution,
                                           args.age_group)
            /\ frame' = milestone_returns([SA |-> sa], args.current_contribution,
                                          args.age_group)
    /\ pc' = "calculate_milestones"
    /\ UNCHANGED conversation_history

\* "Generate Projections": monthly_contribution = monthly_wage * total_rate,
\* then calculate_future_balance is entered and its locals are set up
FutureBalanceCall ==
    /\ pc = "idle"
    /\ \E age_group \in AgeBandSet,
          monthly_wage \in MonthlyWageInputs,
          years \in 0..MaxYears,
          annual_increment \in AnnualIncrementInputs,
          interest_rates \in InterestRatesInputs :
         LET monthly_contribution == CPF_RATES[age_group][1] * monthly_wage
         IN  /\ args' = [ age_group |-> age_group,
                          monthly_wage |-> monthly_wage,
                          current_contribution |-> monthly_contribution,
                          years |-> years,
                          annual_increment |-> annual_increment,
                          interest_rates |-> interest_rates ]
             /\ frame' = InitialFrame(monthly_contribution)
    /\ pc' = "calculate_future_balance"
    /\ UNCHANGED <<ret, conversation_history>>

\* one iteration of "for month in range(years * 12)"
FutureBalanceLoop ==
    /\ pc = "calculate_future_balance"
    /\ frame.month < LoopRange(args.years)
    /\ frame' = LoopBody(frame, args.annual_increment, args.interest_rates)
    /\ UNCHANGED <<pc, args, ret, conversation_history>>

\* return monthly_data
FutureBalanceReturn ==
    /\ pc = "calculate_future_balance"
    /\ frame.month >= LoopRange(args.years)
    /\ ret' = frame.monthly_data
    /\ frame' = NoValue
    /\ pc' = "projected"
    /\ UNCHANGED <<args, conversation_history>>

\* relevant_urls = identify_relevant_url(user_input), for the first message
\* of a session or a later one
IdentifyRelevantUrl ==
    /\ pc \in {"idle", "identify_relevant_url"}
    /\ \E user_message \in Messages :
         /\ args' = [user_message |-> user_message]
         /\ ret' = identify_relevant_url(user_message)
    /\ pc' = "identify_relevant_url"
    /\ UNCHANGED <<frame, conversation_history>>

\* the request is over; nothing of it is kept
Reset ==
    /\ pc \in { "get_age_group", "calculate_contributions", "calculate_allocations",
                "calculate_milestones", "projected", "identify_relevant_url" }
    /\ pc' = "idle"
    /\ args' = NoValue
    /\ ret' = NoValue
    /\ frame' = NoValue
    /\ UNCHANGED conversation_history

Next ==
    \/ GetAgeGroup
    \/ CalculateContributions
    \/ CalculateAllocations
    \/ CalculateMilestones
    \/ FutureBalanceCall
    \/ FutureBalanceLoop
    \/ FutureBalanceReturn
    \/ IdentifyRelevantUrl
    \/ Reset

Spec == Init /\ [][Next]_vars

----------------------------------------------------------------------------
(* The chat page: one action is one run of the script.  args holds the     *)
(* form's values and what the crew and the web came to in that run, ret    *)
(* the entries as the page lists them.                                     *)

\* "Get Answer" is pressed
FormSubmission ==
    /\ pc \in {"idle", "chat"}
    /\ Len(conversation_history) < MaxHistory
    /\ \E user_prompt \in Prompts, crew \in CrewOutcomes, fetch \in FetchOutcomes :
         /\ args' = [ submit_button |-> TRUE, user_prompt |-> user_prompt,
                      crew |-> crew, fetch |-> fetch ]
         /\ conversation_history' =
              IF Submitted(TRUE, user_prompt)
              THEN Append(conversation_history,
                          [ question |-> user_prompt,
                            answer |-> process_user_message(user_prompt, crew, fetch) ])
              ELSE conversation_history
    /\ ret' = reversed(conversation_history')
    /\ pc' = "chat"
    /\ UNCHANGED frame

\* the script runs again without the button: process_user_message is not
\* called
Rerun ==
    /\ pc \in {"idle", "chat"}
    /\ \E user_prompt \in Prompts :
         /\ args' = [ submit_button |-> FALSE, user_prompt |-> user_prompt,
                      crew |-> "not called", fetch |-> "not called" ]
         /\ conversation_history' =
              IF Submitted(FALSE, user_prompt)
              THEN Append(conversation_history,
                          [ question |-> user_prompt,
                            answer |-> process_user_message(user_prompt,
                                           "not called", "not called") ])
              ELSE conversation_history
    /\ ret' = reversed(conversation_history')
    /\ pc' = "chat"
    /\ UNCHANGED frame

ChatNext ==
    \/ FormSubmission
    \/ Rerun

ChatSpec == Init /\ [][ChatNext]_vars

----------------------------------------------------------------------------
(* Properties of calculate_contributions.                                   *)

\* C1, as stated: once the wages of the year so far have reached
\* TOTAL_WAGES_CEILING, the remaining ceiling is 0 and the total, employee and
\* employer contributions are all 0, whatever the wages of the month.
C1_AllContributionsZero ==
    (pc = "calculate_contributions" /\ args.total_wages_ytd >= TOTAL_WAGES_CEILING)
        => /\ ret.remaining_ceiling = 0
           /\ ret.total_cpf = 0
           /\ ret.employee_share = 0
           /\ ret.employer_share = 0

\* C1, amended: once the wages of the year so far have reached
\* TOTAL_WAGES_CEILING, the remaining ceiling is 0 and the additional wages
\* contribute nothing: the contributions are those on the ordinary wages,
\* capped at ORDINARY_WAGES_CEILING, alone, and so all three are 0 when the
\* ordinary wages are 0.
C1_OnlyOrdinaryWagesContribute ==
    (pc = "calculate_contributions" /\ args.total_wages_ytd >= TOTAL_WAGES_CEILING)
        => LET ordinary == IF args.ordinary_wages <= ORDINARY_WAGES_CEILING
                           THEN args.ordinary_wages ELSE ORDINARY_WAGES_CEILING
           IN  /\ ret.remaining_ceiling = 0
               /\ ret.capped_additional_wages = 0
               /\ ret.total_cpf = CPF_RATES[args.age_group][1] * ordinary
               /\ ret.employee_share = CPF_RATES[args.age_group][2] * ordinary
               /\ ret.employer_share = ret.total_cpf - ret.employee_share
               /\ (args.ordinary_wages = 0
                     => ret.total_cpf = 0 /\ ret.employee_share = 0
                                          /\ ret.employer_share = 0)

\* the year's ceiling is used up, both kinds of wages are paid, and a
\* contribution is still due
C1_Witness ==
    /\ pc = "calculate_contributions"
    /\ args.total_wages_ytd >= TOTAL_WAGES_CEILING
    /\ args.ordinary_wages > 0
    /\ args.additional_wages > 0
    /\ ret.remaining_ceiling = 0
    /\ ret.total_cpf > 0

\* C3: for non-negative wages and every age band, the employee share plus the
\* employer share equals the total contribution, and none of the three is
\* negative.
C3_SharesAddUp ==
    pc = "calculate_contributions"
        => /\ ret.employee_share + ret.employer_share = ret.total_cpf
           /\ ret.total_cpf >= 0
           /\ ret.employee_share >= 0
           /\ ret.employer_share >= 0

\* both kinds of wages are paid and both shares are positive
C3_Witness ==
    /\ pc = "calculate_contributions"
    /\ ret.capped_ordinary_wages > 0
    /\ ret.capped_additional_wages > 0
    /\ ret.employee_share > 0
    /\ ret.employer_share > 0
    /\ ret.employee_share # ret.employer_share

----------------------------------------------------------------------------
(* Properties of calculate_allocations.                                     *)

\* C2, as stated: for every total contribution that is not negative, whole
\* cents or not, the Medisave, Special and Ordinary amounts add up to the
\* total exactly, and none of them is negative.
C2_AllocationsAddUp ==
    (pc = "calculate_allocations" /\ args.total_cpf >= 0)
        => /\ ret.medisave_allocation + ret.special_allocation
                + ret.ordinary_allocation = args.total_cpf
           /\ ret.medisave_allocation >= 0
           /\ ret.special_allocation >= 0
           /\ ret.ordinary_allocation >= 0

\* C12: ordinary wages 6000, additional wages 0, band "35 years and below"
\* and no wages so far in the year give a total of 2220.00, an employee share
\* of 1200.00 and an employer share of 1020.00; and the total 2220.00 is
\* allocated as Medisave 180.00, Special 516.00, Ordinary 1524.00, each to
\* within one cent.
C12_Example ==
    LET WithinACent(x, y) == x - y <= Cent /\ y - x <= Cent
    IN  /\ ( /\ pc = "calculate_contributions"
             /\ args.ordinary_wages = 6000
             /\ args.additional_wages = 0
             /\ args.age_group = "35 years and below"
             /\ args.total_wages_ytd = 0 )
               => /\ WithinACent(ret.total_cpf, Dollars(2220))
                  /\ WithinACent(ret.employee_share, Dollars(1200))
                  /\ WithinACent(ret.employer_share, Dollars(1020))
        /\ ( /\ pc = "calculate_allocations"
             /\ args.total_cpf = Dollars(2220)
             /\ args.age_group = "35 years and below" )
               => /\ WithinACent(ret.medisave_allocation, Dollars(180))
                  /\ WithinACent(ret.special_allocation, Dollars(516))
                  /\ WithinACent(ret.ordinary_allocation, Dollars(1524))
                  /\ ret.ordinary_allocation
                       = Dollars(2220) - ret.medisave_allocation
                           - ret.special_allocation

\* the total of the example has been allocated, and the three amounts add up
\* to it
C12_Witness ==
    /\ pc = "calculate_allocations"
    /\ args.total_cpf = Dollars(2220)
    /\ args.age_group = "35 years and below"
    /\ ret.medisave_allocation = Dollars(180)
    /\ ret.medisave_allocation + ret.special_allocation + ret.ordinary_allocation
         = Dollars(2220)

\* C13: for every band a total that is 0 or negative is allocated as
\* (0, 0, 0), and no allocated amount is negative for any total.
C13_NothingNegative ==
    pc = "calculate_allocations"
        => /\ (args.total_cpf <= 0
                 => /\ ret.medisave_allocation = 0
                    /\ ret.special_allocation = 0
                    /\ ret.ordinary_allocation = 0)
           /\ ret.medisave_allocation >= 0
           /\ ret.special_allocation >= 0
           /\ ret.ordinary_allocation >= 0

\* a negative total has been allocated as nothing at all
C13_Witness ==
    /\ pc = "calculate_allocations"
    /\ args.total_cpf < 0
    /\ ret.medisave_allocation = 0
    /\ ret.special_allocation = 0
    /\ ret.ordinary_allocation = 0

----------------------------------------------------------------------------
(* Properties of get_age_group and of the two tables.                       *)

AgeThresholds == <<35, 45, 50, 55, 60, 65>>

\* C5: get_age_group returns the band of the age in whole years: up to 35,
\* 36..45, 46..50, 51..55, 56..60, 61..65, above 65, each threshold belonging
\* to the band below it; a birth date after today gives the first band.
C5_BandsInclusive ==
    pc = "get_age_group"
        => LET age == AgeOf(args.birth_date, args.today)
               passed == { i \in 1..Len(AgeThresholds) : age > AgeThresholds[i] }
               b == args.birth_date
               t == args.today
               unborn == \/ b[1] > t[1]
                         \/ b[1] = t[1] /\ b[2] > t[2]
                         \/ b[1] = t[1] /\ b[2] = t[2] /\ b[3] > t[3]
           IN  /\ ret = AgeBands[Cardinality(passed) + 1]
               /\ (unborn => ret = "35 years and below")

\* the 35th birthday is today, and the band is still the first
C5_Witness ==
    /\ pc = "get_age_group"
    /\ args.birth_date[1] + AgeThresholds[1] = args.today[1]
    /\ args.birth_date[2] = args.today[2]
    /\ args.birth_date[3] = args.today[3]
    /\ ret = "35 years and below"

\* C17: the age is today's year less the year of birth, less 1 when today's
\* (month, day) comes before the (month, day) of birth and less 0 otherwise:
\* the new age applies on the birthday itself, and on the day before the 36th
\* birthday the band is still "35 years and below".
C17_AgeInWholeYears ==
    pc = "get_age_group"
        => LET b == args.birth_date
               t == args.today
               before == t[2] < b[2] \/ (t[2] = b[2] /\ t[3] < b[3])
               age == t[1] - b[1] - (IF before THEN 1 ELSE 0)
               passed == { i \in 1..Len(AgeThresholds) : age > AgeThresholds[i] }
           IN  /\ ret = AgeBands[Cardinality(passed) + 1]
               /\ (t[1] - b[1] = 36 /\ before => ret = "35 years and below")
               /\ (t[1] - b[1] = 36 /\ ~before => ret = "Above 35 to 45 years")

\* today is the day before the 36th birthday
C17_Witness ==
    /\ pc = "get_age_group"
    /\ args.today[1] - args.birth_date[1] = 36
    /\ args.today[2] = args.birth_date[2]
    /\ args.today[3] + 1 = args.birth_date[3]
    /\ ret = "35 years and below"

\* C6: in every band the employee and employer rates add up to the total
\* rate and each rate lies between 0 and 1; the three allocation shares add
\* up to 1 and each lies between 0 and 1; both tables have an entry for every
\* band get_age_group returns.
C6_TablesConsistent ==
    /\ \A g \in DOMAIN CPF_RATES :
         /\ CPF_RATES[g][2] + CPF_RATES[g][3] = CPF_RATES[g][1]
         /\ \A i \in 1..3 : CPF_RATES[g][i] >= 0 /\ CPF_RATES[g][i] <= RateUnit
    /\ \A g \in DOMAIN ALLOCATIONS :
         /\ ALLOCATIONS[g][1] + ALLOCATIONS[g][2] + ALLOCATIONS[g][3] = ShareUnit
         /\ \A i \in 1..3 : ALLOCATIONS[g][i] >= 0 /\ ALLOCATIONS[g][i] <= ShareUnit
    /\ (pc = "get_age_group"
          => ret \in DOMAIN CPF_RATES /\ ret \in DOMAIN ALLOCATIONS)

\* the last band is returned: it is in both tables, with a share that is 0
C6_Witness ==
    /\ pc = "get_age_group"
    /\ ret = "Above 65 years"
    /\ ret \in DOMAIN CPF_RATES
    /\ ret \in DOMAIN ALLOCATIONS
    /\ ALLOCATIONS[ret][2] = 0

----------------------------------------------------------------------------
(* Properties of calculate_milestones.                                      *)

\* C7: a Special Account balance at or above BRS_2024 gives "Already
\* achieved" for BRS, and one at or above FRS_2024 gives it for FRS, whatever
\* the monthly contribution.
C7_AlreadyAchieved ==
    pc = "calculate_milestones"
        => /\ (args.current_balance.SA >= Dollars(BRS_2024)
                 => ret.BRS = AlreadyAchieved)
           /\ (args.current_balance.SA >= Dollars(FRS_2024)
                 => ret.FRS = AlreadyAchieved)

\* the balance is exactly BRS_2024 and nothing is contributed: BRS is
\* achieved, FRS is not
C7_Witness ==
    /\ pc = "calculate_milestones"
    /\ args.current_balance.SA = Dollars(BRS_2024)
    /\ args.monthly_contribution = 0
    /\ ret.BRS = AlreadyAchieved
    /\ ret.FRS # AlreadyAchieved

\* the Special Account gets nothing: nothing is contributed, or the band's
\* Special Account share is 0
NoSaContribution ==
    args.monthly_contribution = 0 \/ ALLOCATIONS[args.age_group][2] = 0

\* C8, as stated: when the monthly Special Account contribution is 0, BRS and
\* FRS are both "Cannot be achieved with current contribution", for every
\* current balance.
C8_AlwaysUnreachable ==
    (pc = "calculate_milestones" /\ NoSaContribution)
        => ret.BRS = CannotBeAchieved /\ ret.FRS = CannotBeAchieved

\* C8, amended: when the monthly Special Account contribution is 0, each of
\* BRS and FRS is "Cannot be achieved with current contribution" for every
\* current balance below that target; a balance at or above the target gives
\* "Already achieved" instead.
C8_UnreachableBelowTarget ==
    (pc = "calculate_milestones" /\ NoSaContribution)
        => /\ ret.BRS = IF args.current_balance.SA < Dollars(BRS_2024)
                        THEN CannotBeAchieved ELSE AlreadyAchieved
           /\ ret.FRS = IF args.current_balance.SA < Dollars(FRS_2024)
                        THEN CannotBeAchieved ELSE AlreadyAchieved

\* contributions are paid but the band's Special Account share is 0, and the
\* balance is below both targets
C8_Witness ==
    /\ pc = "calculate_milestones"
    /\ args.monthly_contribution > 0
    /\ ALLOCATIONS[args.age_group][2] = 0
    /\ args.current_balance.SA < Dollars(BRS_2024)
    /\ ret.BRS = CannotBeAchieved
    /\ ret.FRS = CannotBeAchieved

IsMilestone(result) ==
    \/ result = AlreadyAchieved
    \/ result = CannotBeAchieved
    \/ /\ result.number
       /\ result.years10 >= 0
       /\ result.years10 <= 10 * MaxYearsToTarget

\* C9: for every balance, contribution and band, each of BRS and FRS is one of
\* the two texts or a number of years from 0 to 100.
C9_TextOrYearsInRange ==
    pc = "calculate_milestones" => IsMilestone(ret.BRS) /\ IsMilestone(ret.FRS)

\* the Special Account gets a contribution and is below both targets: BRS is
\* a number of years, FRS is further away than the limit
C9_Witness ==
    /\ pc = "calculate_milestones"
    /\ args.monthly_contribution > 0
    /\ ALLOCATIONS[args.age_group][2] > 0
    /\ args.current_balance.SA < Dollars(BRS_2024)
    /\ ret.BRS.number
    /\ ret.FRS = CannotBeAchieved

\* C19: the two results of one call are ordered as the targets are: if FRS is
\* "Already achieved" so is BRS; if both are numbers of years, BRS takes no
\* longer than FRS; and if BRS is "Cannot be achieved with current
\* contribution" so is FRS.
C19_MilestonesOrdered ==
    pc = "calculate_milestones"
        => /\ (ret.FRS = AlreadyAchieved => ret.BRS = AlreadyAchieved)
           /\ (ret.BRS.number /\ ret.FRS.number
                 => ret.BRS.years10 <= ret.FRS.years10)
           /\ (ret.BRS = CannotBeAchieved => ret.FRS = CannotBeAchieved)

\* both targets are some years away, FRS further than BRS
C19_Witness ==
    /\ pc = "calculate_milestones"
    /\ ret.BRS.number
    /\ ret.FRS.number
    /\ ret.BRS.years10 > 0
    /\ ret.BRS.years10 < ret.FRS.years10

\* C20: for the band "Above 65 years", whose Special Account share is 0, no
\* result is a number of years: each is "Already achieved" when the balance
\* is at or above the target and "Cannot be achieved with current
\* contribution" otherwise, whatever the contribution; for every other band,
\* with a positive monthly contribution and a balance below the target, the
\* call goes on to the logarithm.
C20_NoEstimateAbove65 ==
    pc = "calculate_milestones"
        => LET sa == args.current_balance.SA
           IN  /\ args.age_group = "Above 65 years"
                    => /\ ret.BRS = IF sa >= Dollars(BRS_2024)
                                    THEN AlreadyAchieved ELSE CannotBeAchieved
                       /\ ret.FRS = IF sa >= Dollars(FRS_2024)
                                    THEN AlreadyAchieved ELSE CannotBeAchieved
               /\ (args.age_group # "Above 65 years"
                     /\ args.monthly_contribution > 0)
                    => /\ (sa < Dollars(BRS_2024) => frame.BRS = "try")
                       /\ (sa < Dollars(FRS_2024) => frame.FRS = "try")

\* above 65, with a contribution and a balance between the two targets
C20_Witness ==
    /\ pc = "calculate_milestones"
    /\ args.age_group = "Above 65 years"
    /\ args.monthly_contribution > 0
    /\ ret.BRS = AlreadyAchieved
    /\ ret.FRS = CannotBeAchieved
    /\ frame.FRS = "monthly_sa_contribution <= 0"

----------------------------------------------------------------------------
(* Properties of calculate_future_balance.                                  *)

SeriesNames == {"OA", "SA", "MA", "Total", "Months"}

\* C10: a projection over 0 years is empty; one over N years has 12 * N
\* snapshots in each series, with the months 0 .. 12 * N - 1 in order; and
\* the projection of the same inputs over N + 1 years begins with it.
C10_SnapshotsAndPrefix ==
    pc = "projected"
        => LET n == MonthsPerYear * args.years
               longer == calculate_future_balance(args.current_contribution,
                             args.years + 1, args.annual_increment,
                             args.interest_rates)
           IN  /\ (args.years = 0 => \A k \in SeriesNames : ret[k] = <<>>)
               /\ \A k \in SeriesNames : Len(ret[k]) = n
               /\ \A i \in 1..n : ret.Months[i] = i - 1
               /\ \A k \in SeriesNames :
                    /\ Len(longer[k]) = n + MonthsPerYear
                    /\ \A i \in 1..n : longer[k][i] = ret[k][i]

\* a projection over more than one year, with an annual increment, has
\* returned, and its balances grew
C10_Witness ==
    /\ pc = "projected"
    /\ args.years > 1
    /\ args.annual_increment > 0
    /\ Len(ret.Total) = MonthsPerYear * args.years
    /\ ret.Total[Len(ret.Total)] > ret.Total[1]

BalanceNames == {"OA", "SA", "MA", "Total"}

\* the series built so far, or the one returned
Snapshots == IF pc = "projected" THEN ret ELSE frame.monthly_data

\* C11: with a monthly contribution, an annual increment and account rates
\* that are not negative, every snapshot of OA, SA, MA and Total is at least 0
\* and at least the snapshot of the month before.
C11_BalancesNeverFall ==
    ( /\ pc \in {"calculate_future_balance", "projected"}
      /\ args.current_contribution >= 0
      /\ args.annual_increment >= 0
      /\ args.interest_rates.OA >= 0
      /\ args.interest_rates.SA >= 0
      /\ args.interest_rates.MA >= 0 )
        => \A k \in BalanceNames :
             \A i \in 1..Len(Snapshots[k]) :
               /\ Snapshots[k][i] >= 0
               /\ (i > 1 => Snapshots[k][i - 1] <= Snapshots[k][i])

\* the loop is in its second year, with a raise, and the Special Account grew
\* in the last month
C11_Witness ==
    /\ pc = "calculate_future_balance"
    /\ frame.month > MonthsPerYear
    /\ args.annual_increment > 0
    /\ frame.monthly_data.SA[1] > 0
    /\ frame.monthly_data.SA[frame.month] > frame.monthly_data.SA[frame.month - 1]

\* contribution * (1 + annual_increment), k times over
RECURSIVE Raised(_, _, _)
Raised(contribution, annual_increment, k) ==
    IF k = 0 THEN contribution
    ELSE LET before == Raised(contribution, annual_increment, k - 1)
         IN  before + (before * annual_increment) \div RateUnit

\* C15: the contribution is raised by the annual increment at the months that
\* are multiples of 12 and above 0, and at no other: the contribution used in
\* month m is the initial one raised floor(m / 12) times, so months 0 to 11
\* use the initial one; and no iteration changes a snapshot of an earlier
\* month.
C15_RaiseAtYearStart ==
    /\ [](pc = "calculate_future_balance" /\ frame.month > 0
            => frame.monthly_contribution
                 = Raised(args.current_contribution, args.annual_increment,
                          (frame.month - 1) \div MonthsPerYear))
    /\ [][pc = "calculate_future_balance" /\ pc' = "calculate_future_balance"
            => \A k \in SeriesNames :
                 \A i \in 1..Len(frame.monthly_data[k]) :
                   frame'.monthly_data[k][i] = frame.monthly_data[k][i]]_vars

\* month 12 has just been computed, with a contribution above the initial one
C15_Witness ==
    /\ pc = "calculate_future_balance"
    /\ frame.month = MonthsPerYear + 1
    /\ args.annual_increment > 0
    /\ frame.monthly_contribution > args.current_contribution

\* x * (1 + rate / 12)
Grown(x, rate) == x + (x * rate) \div (MonthsPerYear * RateUnit)

\* C16: every balance starts at 0; each month a balance becomes
\* (old balance + sub-contribution) * (1 + rate / 12); the default annual rates
\* are OA 2.5%, SA 4.0%, MA 4.0%; the snapshot of a month is the balance after
\* interest, and its Total is OA + SA + MA of that month.
C16_ContributionThenInterest ==
    /\ DefaultInterestRates = [OA |-> 25, SA |-> 40, MA |-> 40]
    /\ [](pc = "calculate_future_balance"
            => /\ (frame.month = 0
                     => /\ frame.oa_balance = 0
                        /\ frame.sa_balance = 0
                        /\ frame.ma_balance = 0)
               /\ (frame.month > 0
                     => /\ frame.monthly_data.OA[frame.month] = frame.oa_balance
                        /\ frame.monthly_data.SA[frame.month] = frame.sa_balance
                        /\ frame.monthly_data.MA[frame.month] = frame.ma_balance)
               /\ \A i \in 1..Len(frame.monthly_data.Total) :
                    frame.monthly_data.Total[i]
                      = frame.monthly_data.OA[i] + frame.monthly_data.SA[i]
                          + frame.monthly_data.MA[i])
    /\ [][pc = "calculate_future_balance" /\ pc' = "calculate_future_balance"
            => LET monthly == frame'.monthly_contribution
               IN  /\ frame'.oa_balance
                        = Grown(frame.oa_balance
                                  + MilliShareOf(monthly, ProjectionShares.OA),
                                args.interest_rates.OA)
                   /\ frame'.sa_balance
                        = Grown(frame.sa_balance
                                  + MilliShareOf(monthly, ProjectionShares.SA),
                                args.interest_rates.SA)
                   /\ frame'.ma_balance
                        = Grown(frame.ma_balance
                                  + MilliShareOf(monthly, ProjectionShares.MA),
                                args.interest_rates.MA)]_vars

\* two months in, at the default rates: the second snapshot holds the
\* interest on the first month's balance and on the second contribution
C16_Witness ==
    /\ pc = "calculate_future_balance"
    /\ frame.month >= 2
    /\ args.interest_rates = DefaultInterestRates
    /\ args.current_contribution > 0
    /\ frame.monthly_data.SA[2] > 2 * frame.monthly_data.SA[1]
    /\ frame.monthly_data.Total[2]
         = frame.monthly_data.OA[2] + frame.monthly_data.SA[2]
             + frame.monthly_data.MA[2]

\* C14, as stated: for every band, the (medisave, special, ordinary) shares
\* by which the projection splits the month's contribution are
\* ALLOCATIONS[band], for the band whose total rate gave the monthly
\* contribution and whose Special Account share calculate_milestones uses.
\* So the first snapshot holds the band's shares of the contribution, with
\* a month's interest.
C14_SharesOfTheBand ==
    (pc = "calculate_future_balance" /\ frame.month > 0
                                     /\ args.current_contribution > 0)
        => LET band == ALLOCATIONS[args.age_group]
               monthly == args.current_contribution
           IN  /\ << ProjectionShares.MA, ProjectionShares.SA,
                     ProjectionShares.OA >> = band
               /\ frame.monthly_data.MA[1]
                    = Grown(MilliShareOf(monthly, band[1]), args.interest_rates.MA)
               /\ frame.monthly_data.SA[1]
                    = Grown(MilliShareOf(monthly, band[2]), args.interest_rates.SA)
               /\ frame.monthly_data.OA[1]
                    = Grown(MilliShareOf(monthly, band[3]), args.interest_rates.OA)

----------------------------------------------------------------------------
(* Properties of identify_relevant_url.                                     *)

\* C18: the result is never empty: it is the housing_policies list when a
\* word of the message, lower-cased and cut at white space, is one of
\* housing, house, home, property, loan, interest, mortgage, hdb, and the
\* general_info list otherwise, the empty message included; earlier messages
\* play no part.
C18_UrlsByKeyword ==
    pc = "identify_relevant_url"
        => LET keywords == { <<"housing">>, <<"house">>, <<"home">>, <<"property">>,
                             <<"loan">>, <<"interest">>, <<"mortgage">>, <<"hdb">> }
               housing == message_words(args.user_message) \cap keywords # {}
           IN  /\ ret # <<>>
               /\ ret = IF housing THEN CPF_URLS.housing_policies
                                   ELSE CPF_URLS.general_info
               /\ (args.user_message = <<>> => ret = CPF_URLS.general_info)

\* a message of several words has "HDB" as a word of its own, and the
\* housing list is returned
C18_Witness ==
    /\ pc = "identify_relevant_url"
    /\ Len(args.user_message) = 3
    /\ args.user_message[1] = "cpf"
    /\ args.user_message[2] = " "
    /\ args.user_message[3] = "HDB"
    /\ ret = CPF_URLS.housing_policies

----------------------------------------------------------------------------
(* Properties of the chat page.                                             *)

\* the run appends nothing, or one entry at the end, and lists the entries
\* newest first; FailureGivesApology says, for the run's crew and fetch
\* outcomes, whether the answer has to be the apology
HistoryStep(FailureGivesApology(_, _)) ==
    LET old == conversation_history
        new == conversation_history'
        run == args'
    IN  /\ IF run.submit_button /\ run.user_prompt # <<>>
           THEN /\ Len(new) = Len(old) + 1
                /\ \A i \in 1..Len(old) : new[i] = old[i]
                /\ new[Len(new)].question = run.user_prompt
                /\ (FailureGivesApology(run.crew, run.fetch)
                      => new[Len(new)].answer = Apology)
           ELSE new = old
        /\ Len(ret') = Len(new)
        /\ \A i \in 1..Len(new) : ret'[i] = new[Len(new) + 1 - i]

\* C21, as stated: a submission with a prompt that is not empty appends
\* exactly one entry at the end, also when the crew or the page fetch fails,
\* and the answer is then the apology; an empty prompt or a run without
\* submission leaves the history unchanged; entries are never changed,
\* removed or reordered, and the page lists them newest first.
C21_ApologyOnAnyFailure ==
    [][pc' = "chat"
         => HistoryStep(LAMBDA crew, fetch :
                \/ crew = "raises"
                \/ fetch \in {"RequestException", "other exception"})]_vars

\* C21, amended: as stated, but the answer is the apology when the crew
\* fails or the page fetch raises something other than a request error; a
\* request error is caught where the page is fetched, the page is left out,
\* and the answer is the combined response.
C21_AppendOnly ==
    [][pc' = "chat"
         => /\ HistoryStep(LAMBDA crew, fetch :
                   crew = "raises" \/ fetch = "other exception")
            /\ (args'.submit_button /\ args'.user_prompt # <<>>
                  /\ args'.crew = "response"
                  /\ args'.fetch \in {"RequestException", "no content"}
                  => conversation_history'[Len(conversation_history')].answer
                       = CombinedResponse("crew response", <<>>))]_vars

\* after an apology for a failed crew, a second question met a request error
\* and got the combined response; the page lists it first
C21_Witness ==
    /\ pc = "chat"
    /\ args.submit_button
    /\ args.crew = "response"
    /\ args.fetch = "RequestException"
    /\ Len(conversation_history) = 2
    /\ conversation_history[1].answer = Apology
    /\ conversation_history[2].question = args.user_prompt
    /\ conversation_history[2].answer # Apology
    /\ ret[1] = conversation_history[2]

====
